---- MODULE Spec2Model ----
(***************************************************************************)
(* Admission (schedule) and batch settlement (settle) of transactions on   *)
(* an address balance and an object balance, after src/src/main.rs.        *)
(*                                                                         *)
(* The program stores balances as u64 and deltas as i64.  The model keeps  *)
(* the two's-complement arithmetic but scales the word from 64 bits to     *)
(* Bits bits: an unsigned value is in 0..UMax, a signed one in IMin..IMax. *)
(***************************************************************************)
EXTENDS Integers, Sequences, FiniteSets

\* width of the machine word of the model (64 in the program)
Bits == 3
\* amounts 0..MaxAmount are offered to schedule, next to UMax, the largest
\* unsigned word, whose conversion to a signed word is negative
MaxAmount == 2
\* longest pending queue the model explores
MaxQueue == 2

Modulus == 2 ^ Bits
UMax == Modulus - 1
IMax == (2 ^ (Bits - 1)) - 1
IMin == 0 - (2 ^ (Bits - 1))

\* `x as i64` for an unsigned word x
AsI64(x) == IF x > IMax THEN x - Modulus ELSE x
\* `x as u64` for a signed word x
AsU64(x) == IF x < 0 THEN x + Modulus ELSE x
\* the signed word an i64 operation leaves when its exact result is n
WrapI64(n) == ((n - IMin) % Modulus) + IMin

Targets == {"Address", "Object"}
Kinds == {"UserDeposit", "UserWithdraw", "Curse", "Clawback"}
Amounts == (0 .. MaxAmount) \cup {UMax}

\* struct Transaction { kind: TransactionKind(amount), target }
Transaction == [kind : Kinds, amount : Amounts, target : Targets]

\* no transaction (the value of last_tx and failed_tx when there is none)
NoTx == [kind |-> "None", amount |-> 0, target |-> "None"]

\* struct Balance(u64, u64) and struct BalanceDelta(i64, i64) are pairs
ZeroBalance == <<0, 0>>
ZeroDelta == <<0, 0>>

\* #[derive(Default)] Effects
DefaultEffects == [address_delta |-> ZeroDelta, object_delta |-> ZeroDelta]

\* #[derive(Default)] State
DefaultState == [address_state |-> ZeroBalance, object_state |-> ZeroBalance]

\* no transaction is taken for a clawback
is_clawback_never(tx) == FALSE

is_clawback(tx) == tx.kind = "Clawback"

\* an into_delta whose clawback takes from the cursed amount alone
into_delta_clawback_cursed_only(tx) ==
    CASE tx.kind = "UserDeposit" -> <<AsI64(tx.amount), 0>>
      [] tx.kind = "UserWithdraw" -> <<WrapI64(0 - AsI64(tx.amount)), 0>>
      [] tx.kind = "Curse" -> <<0, AsI64(tx.amount)>>
      [] tx.kind = "Clawback" -> <<0, WrapI64(0 - AsI64(tx.amount))>>

\* Transaction::into_delta.  The negation wraps only for the amount IMax + 1,
\* which no withdraw or clawback that passed check_limit carries.
into_delta(tx) ==
    CASE tx.kind = "UserDeposit" -> <<AsI64(tx.amount), 0>>
      [] tx.kind = "UserWithdraw" -> <<WrapI64(0 - AsI64(tx.amount)), 0>>
      [] tx.kind = "Curse" -> <<0, AsI64(tx.amount)>>
      [] tx.kind = "Clawback" ->
            <<WrapI64(0 - AsI64(tx.amount)), WrapI64(0 - AsI64(tx.amount))>>

\* Balance::apply_delta: ok is FALSE when the assertion fails (the call
\* panics); otherwise bal is the balance after the call.  The additions
\* wrap; a build with overflow checks panics exactly where the wrapped
\* sum fails the assertion, because self.0 as i64 and self.1 as i64 are
\* never negative here.
apply_delta(self, delta) ==
    LET b0 == AsI64(self[1])
        c0 == AsI64(self[2])
        b == WrapI64(b0 + delta[1])
        c == WrapI64(c0 + delta[2])
    IN  IF b >= 0 /\ c >= 0
        THEN [ok |-> TRUE, bal |-> <<AsU64(b), AsU64(c)>>]
        ELSE [ok |-> FALSE, bal |-> self]

\* a subtraction that wraps instead of saturating
wrapping_sub(x, y) == (x - y) % Modulus

\* u64::saturating_sub
saturating_sub(x, y) == IF x >= y THEN x - y ELSE 0

\* std::cmp::min
min(x, y) == IF x <= y THEN x ELSE y

\* a check_limit that caps the cursed amount at the balance
check_limit_curse_capped(self, transaction) ==
    CASE transaction.kind = "UserDeposit" -> TRUE
      [] transaction.kind = "Curse" ->
            self[2] + transaction.amount <= self[1]
      [] transaction.kind = "UserWithdraw" ->
            transaction.amount <= saturating_sub(self[1], self[2])
      [] transaction.kind = "Clawback" ->
            transaction.amount <= min(self[1], self[2])

\* a check_limit that refuses the deposits the signed word cannot hold
check_limit_signed_deposit(self, transaction) ==
    CASE transaction.kind = "UserDeposit" -> transaction.amount <= IMax
      [] transaction.kind = "Curse" -> TRUE
      [] transaction.kind = "UserWithdraw" ->
            transaction.amount <= saturating_sub(self[1], self[2])
      [] transaction.kind = "Clawback" ->
            transaction.amount <= min(self[1], self[2])

\* Balance::check_limit
check_limit(self, transaction) ==
    CASE transaction.kind = "UserDeposit" -> TRUE
      [] transaction.kind = "Curse" -> TRUE
      [] transaction.kind = "UserWithdraw" ->
            transaction.amount <= saturating_sub(self[1], self[2])
      [] transaction.kind = "Clawback" ->
            transaction.amount <= min(self[1], self[2])

\* an apply that reports the delta of an address transaction on both accounts
apply_reports_both(self, transaction) ==
    LET transaction_delta == into_delta(transaction)
    IN  IF transaction.target = "Address"
        THEN LET r == apply_delta(self.address_state, transaction_delta)
             IN  [ok |-> r.ok,
                  state |-> [self EXCEPT !.address_state = r.bal],
                  effects |-> [address_delta |-> transaction_delta,
                               object_delta |-> transaction_delta]]
        ELSE LET r == apply_delta(self.object_state, transaction_delta)
             IN  [ok |-> r.ok,
                  state |-> [self EXCEPT !.object_state = r.bal],
                  effects |-> [address_delta |-> ZeroDelta,
                               object_delta |-> transaction_delta]]

\* State::apply: ok is FALSE when apply_delta panics
apply(self, transaction) ==
    LET transaction_delta == into_delta(transaction)
    IN  IF transaction.target = "Address"
        THEN LET r == apply_delta(self.address_state, transaction_delta)
             IN  [ok |-> r.ok,
                  state |-> [self EXCEPT !.address_state = r.bal],
                  effects |-> [address_delta |-> transaction_delta,
                               object_delta |-> ZeroDelta]]
        ELSE LET r == apply_delta(self.object_state, transaction_delta)
             IN  [ok |-> r.ok,
                  state |-> [self EXCEPT !.object_state = r.bal],
                  effects |-> [address_delta |-> ZeroDelta,
                               object_delta |-> transaction_delta]]

\* a schedule whose clawback arm always reads the address balance
schedule_clawback_reads_address(self_state, transaction) ==
    CASE transaction.target = "Address" ->
            check_limit(self_state.address_state, transaction)
      [] transaction.target = "Object" /\ ~is_clawback(transaction) -> TRUE
      [] OTHER -> check_limit(self_state.address_state, transaction)

\* the decision of Executor::schedule: TRUE for Ok(()), FALSE for Err(())
schedule(self_state, transaction) ==
    CASE transaction.target = "Address" ->
            check_limit(self_state.address_state, transaction)
      [] transaction.target = "Object" /\ ~is_clawback(transaction) -> TRUE
      [] OTHER ->
            LET state_ == IF transaction.target = "Address"
                          THEN self_state.address_state
                          ELSE self_state.object_state
            IN  check_limit(state_, transaction)

\* a closure that records the attempted delta of a transaction it clears
settle_one_records_attempt(self_state, next_state, tx) ==
    IF tx.target = "Address" \/ (tx.target = "Object" /\ is_clawback(tx))
    THEN apply(next_state, tx)
    ELSE IF check_limit(self_state.object_state, tx)
         THEN apply(next_state, tx)
         ELSE [ok |-> TRUE, state |-> next_state,
               effects |-> [address_delta |-> ZeroDelta,
                            object_delta |-> into_delta(tx)]]

\* a closure that checks object transactions against the evolving next_state
settle_one_checks_next_state(self_state, next_state, tx) ==
    IF tx.target = "Address" \/ (tx.target = "Object" /\ is_clawback(tx))
    THEN apply(next_state, tx)
    ELSE IF check_limit(next_state.object_state, tx)
         THEN apply(next_state, tx)
         ELSE [ok |-> TRUE, state |-> next_state, effects |-> DefaultEffects]

\* the closure of Executor::settle on one drained transaction: the pair it
\* yields and the next_state it leaves
settle_one(self_state, next_state, tx) ==
    IF tx.target = "Address" \/ (tx.target = "Object" /\ is_clawback(tx))
    THEN apply(next_state, tx)
    ELSE IF check_limit(self_state.object_state, tx)
         THEN apply(next_state, tx)
         ELSE [ok |-> TRUE, state |-> next_state, effects |-> DefaultEffects]

\* the drain(..).map(..).collect() of Executor::settle over the queue txs,
\* in order, from next_state with the pairs collected so far in acc; trail
\* holds next_state as each closure call left it
RECURSIVE settle_loop(_, _, _, _, _)
settle_loop(self_state, next_state, txs, acc, trail) ==
    IF txs = <<>>
    THEN [ok |-> TRUE, state |-> next_state, ret |-> acc, trail |-> trail,
          failed |-> NoTx]
    ELSE LET tx == Head(txs)
             r == settle_one(self_state, next_state, tx)
         IN  IF r.ok
             THEN settle_loop(self_state, r.state, Tail(txs),
                              Append(acc, [tx |-> tx, effects |-> r.effects]),
                              Append(trail, r.state))
             ELSE [ok |-> FALSE, state |-> next_state, ret |-> acc,
                   trail |-> trail, failed |-> tx]

VARIABLES
    state,                   \* Executor.state
    scheduled_transactions,  \* Executor.scheduled_transactions
    outcome,                 \* how the last call ended: "new" (no call yet),
                             \* "ok", "err" (schedule), "settled", "panic"
    last_tx,                 \* the argument of the last call, if a schedule
    ret,                     \* the value the last call returned, if a settle
    failed_tx,               \* the transaction whose application panicked
    trail,                   \* next_state after each transaction the last
                             \* settle got through
    prev_state,              \* Executor.state before the last call
    prev_queue,              \* the pending queue before the last call
    admitted                 \* the transactions schedule answered Ok(()) for
                             \* since the settle before the last call

vars == <<state, scheduled_transactions, outcome, last_tx, ret, failed_tx,
          trail, prev_state, prev_queue, admitted>>

\* Executor::default()
Init ==
    /\ state = DefaultState
    /\ scheduled_transactions = <<>>
    /\ outcome = "new"
    /\ last_tx = NoTx
    /\ ret = <<>>
    /\ failed_tx = NoTx
    /\ trail = <<>>
    /\ prev_state = DefaultState
    /\ prev_queue = <<>>
    /\ admitted = <<>>

\* the admissions of the current round, as a call entered after a call that
\* ended with outcome o finds them
Round(o) == IF o \in {"ok", "err"} THEN admitted ELSE <<>>

\* a schedule that pushes the transaction before it checks the limit
Schedule_push_first(transaction) ==
    /\ outcome # "panic"
    /\ Len(scheduled_transactions) < MaxQueue
    /\ prev_state' = state
    /\ prev_queue' = scheduled_transactions
    /\ last_tx' = transaction
    /\ ret' = <<>>
    /\ failed_tx' = NoTx
    /\ trail' = <<>>
    /\ state' = state
    /\ scheduled_transactions' = Append(scheduled_transactions, transaction)
    /\ IF schedule(state, transaction)
       THEN /\ outcome' = "ok"
            /\ admitted' = Append(Round(outcome), transaction)
       ELSE /\ outcome' = "err"
            /\ admitted' = Round(outcome)

\* a schedule that checks the limit against the committed state with the
\* pending transactions applied to it
Schedule_sees_pending(transaction) ==
    /\ outcome # "panic"
    /\ Len(scheduled_transactions) < MaxQueue
    /\ prev_state' = state
    /\ prev_queue' = scheduled_transactions
    /\ last_tx' = transaction
    /\ ret' = <<>>
    /\ failed_tx' = NoTx
    /\ trail' = <<>>
    /\ state' = state
    /\ IF schedule(settle_loop(state, state, scheduled_transactions,
                              <<>>, <<>>).state, transaction)
       THEN /\ scheduled_transactions' =
                    Append(scheduled_transactions, transaction)
            /\ outcome' = "ok"
            /\ admitted' = Append(Round(outcome), transaction)
       ELSE /\ scheduled_transactions' = scheduled_transactions
            /\ outcome' = "err"
            /\ admitted' = Round(outcome)

\* Executor::schedule(transaction)
Schedule(transaction) ==
    /\ outcome # "panic"
    /\ Len(scheduled_transactions) < MaxQueue
    /\ prev_state' = state
    /\ prev_queue' = scheduled_transactions
    /\ last_tx' = transaction
    /\ ret' = <<>>
    /\ failed_tx' = NoTx
    /\ trail' = <<>>
    /\ state' = state
    /\ IF schedule(state, transaction)
       THEN /\ scheduled_transactions' =
                    Append(scheduled_transactions, transaction)
            /\ outcome' = "ok"
            /\ admitted' = Append(Round(outcome), transaction)
       ELSE /\ scheduled_transactions' = scheduled_transactions
            /\ outcome' = "err"
            /\ admitted' = Round(outcome)

\* a settle that iterates over the queue without draining it
Settle_keeps_queue ==
    /\ outcome # "panic"
    /\ LET r == settle_loop(state, state, scheduled_transactions, <<>>, <<>>)
       IN  /\ prev_state' = state
           /\ prev_queue' = scheduled_transactions
           /\ scheduled_transactions' = scheduled_transactions
           /\ last_tx' = NoTx
           /\ admitted' = Round(outcome)
           /\ failed_tx' = r.failed
           /\ trail' = r.trail
           /\ IF r.ok
              THEN /\ state' = r.state
                   /\ ret' = r.ret
                   /\ outcome' = "settled"
              ELSE /\ state' = state
                   /\ ret' = <<>>
                   /\ outcome' = "panic"

\* Executor::settle().  A panic unwinds out of the call: the Drain is
\* dropped, which leaves the queue empty, next_state is never stored and
\* nothing is returned; the executor takes no further call.
Settle ==
    /\ outcome # "panic"
    /\ LET r == settle_loop(state, state, scheduled_transactions, <<>>, <<>>)
       IN  /\ prev_state' = state
           /\ prev_queue' = scheduled_transactions
           /\ scheduled_transactions' = <<>>
           /\ last_tx' = NoTx
           /\ admitted' = Round(outcome)
           /\ failed_tx' = r.failed
           /\ trail' = r.trail
           /\ IF r.ok
              THEN /\ state' = r.state
                   /\ ret' = r.ret
                   /\ outcome' = "settled"
              ELSE /\ state' = state
                   /\ ret' = <<>>
                   /\ outcome' = "panic"

Next ==
    \/ \E transaction \in Transaction : Schedule(transaction)
    \/ Settle

Spec == Init /\ [][Next]_vars

----------------------------------------------------------------------------
\* helpers of the properties

IsSchedule == outcome \in {"ok", "err"}
IsSettle == outcome \in {"settled", "panic"}

\* the balance of the target of tx in the state st
TargetBalance(st, tx) ==
    IF tx.target = "Address" THEN st.address_state ELSE st.object_state

\* next_state as the last settle found it before its i-th transaction
Before(i) == IF i = 1 THEN prev_state ELSE trail[i - 1]

IsObjectWithdraw(tx) == tx.target = "Object" /\ tx.kind = "UserWithdraw"

\* the sum of the k-th component of the deltas es[1] .. es[n], where es is
\* a sequence of pairs
RECURSIVE SumTo(_, _, _)
SumTo(es, k, n) == IF n = 0 THEN 0 ELSE SumTo(es, k, n - 1) + es[n][k]

AddressDeltas == [i \in DOMAIN ret |-> ret[i].effects.address_delta]
ObjectDeltas == [i \in DOMAIN ret |-> ret[i].effects.object_delta]

Max0(n) == IF n > 0 THEN n ELSE 0
Least(x, y) == IF x <= y THEN x ELSE y

TypeOK ==
    /\ state.address_state \in (0 .. IMax) \X (0 .. IMax)
    /\ state.object_state \in (0 .. IMax) \X (0 .. IMax)
    /\ Len(scheduled_transactions) <= MaxQueue
    /\ outcome \in {"new", "ok", "err", "settled", "panic"}

----------------------------------------------------------------------------
\* C1: from the default executor, no sequence of schedule and settle calls
\* makes the assertion of apply_delta fail (no settle panics).
C1_NeverPanics == outcome # "panic"

\* C2: every address-target transaction and every clawback that schedule
\* admitted is applied by settle without tripping the assertion, also when
\* several were admitted against the same committed balance.
C2_EagerTierApplies ==
    outcome = "panic" =>
        ~(failed_tx.target = "Address" \/ is_clawback(failed_tx))

\* C3 as stated: schedule(address Withdraw(a)) is admitted iff
\* a <= balance - cursed of the committed address balance, the difference
\* taken as it stands (negative when cursed exceeds balance).
C3_WithdrawIffDifference ==
    (IsSchedule /\ last_tx.target = "Address" /\ last_tx.kind = "UserWithdraw")
        => (outcome = "ok" <=>
                last_tx.amount <=
                    prev_state.address_state[1] - prev_state.address_state[2])

\* C3 amended: schedule(address Withdraw(a)) is admitted iff
\* a <= max(0, balance - cursed) of the committed address balance at the
\* time of the call, and is rejected otherwise.
C3_WithdrawIffFlooredDifference ==
    (IsSchedule /\ last_tx.target = "Address" /\ last_tx.kind = "UserWithdraw")
        => (outcome = "ok" <=>
                last_tx.amount <=
                    Max0(prev_state.address_state[1]
                            - prev_state.address_state[2]))

\* an address withdraw admitted while cursed exceeds balance
C3_Witness ==
    /\ outcome = "ok"
    /\ last_tx.target = "Address" /\ last_tx.kind = "UserWithdraw"
    /\ prev_state.address_state[2] > prev_state.address_state[1]

\* C4: for either target, schedule(Clawback(a)) is admitted iff
\* a <= min(balance, cursed) of the committed balance of that target at
\* the time of the call.
C4_ClawbackIffMin ==
    (IsSchedule /\ last_tx.kind = "Clawback")
        => (outcome = "ok" <=>
                last_tx.amount <=
                    Least(TargetBalance(prev_state, last_tx)[1],
                          TargetBalance(prev_state, last_tx)[2]))

\* an object clawback rejected at schedule time although it is within the
\* object balance
C4_Witness ==
    /\ outcome = "err"
    /\ last_tx.target = "Object" /\ last_tx.kind = "Clawback"
    /\ last_tx.amount <= prev_state.object_state[1]

\* C5: schedule(Deposit(a)) returns Ok(()) and appends the transaction to
\* the pending queue, for both targets, every amount and every state.
C5_DepositAdmitted ==
    (IsSchedule /\ last_tx.kind = "UserDeposit")
        => /\ outcome = "ok"
           /\ scheduled_transactions = Append(prev_queue, last_tx)

\* the largest unsigned amount deposited to an address with a pending queue
C5_Witness ==
    /\ outcome = "ok"
    /\ last_tx = [kind |-> "UserDeposit", amount |-> UMax, target |-> "Address"]
    /\ prev_queue # <<>>

\* C6: schedule(object Withdraw(a)) is admitted in every state, and the
\* settle that drains it either applies it in full (effect (-a, 0), object
\* balance less by exactly a) or clears it (zero effect, object balance
\* untouched by it); there is no other outcome for an object withdraw that
\* settle gets to, so none ends in the failed assertion either.
C6_ObjectOptimism ==
    /\ (IsSchedule /\ IsObjectWithdraw(last_tx)) => outcome = "ok"
    /\ IsSettle =>
         /\ ~IsObjectWithdraw(failed_tx)
         /\ \A i \in DOMAIN trail :
               IsObjectWithdraw(prev_queue[i]) =>
                  LET a == prev_queue[i].amount
                      full == trail[i].object_state =
                                <<Before(i).object_state[1] - a,
                                  Before(i).object_state[2]>>
                      none == trail[i].object_state = Before(i).object_state
                  IN  /\ full \/ none
                      /\ i \in DOMAIN ret =>
                            /\ ret[i].tx = prev_queue[i]
                            /\ ret[i].effects.address_delta = <<0, 0>>
                            /\ \/ full /\ ret[i].effects.object_delta = <<0 - a, 0>>
                               \/ none /\ ret[i].effects.object_delta = <<0, 0>>

\* C7: after every settle the pending queue is empty and each committed
\* balance is its value before the call plus the component-wise sum of the
\* effects the call returned for that account.
C7_SettlementAtomicity ==
    IsSettle =>
        /\ scheduled_transactions = <<>>
        /\ \A k \in {1, 2} :
              /\ state.address_state[k] =
                    prev_state.address_state[k]
                        + SumTo(AddressDeltas, k, Len(ret))
              /\ state.object_state[k] =
                    prev_state.object_state[k]
                        + SumTo(ObjectDeltas, k, Len(ret))

\* a settle that returned a cleared object withdraw next to an applied
\* transaction
C7_Witness ==
    /\ outcome = "settled"
    /\ \E i, j \in DOMAIN ret :
          /\ IsObjectWithdraw(ret[i].tx) /\ ret[i].tx.amount > 0
          /\ ret[i].effects = DefaultEffects
          /\ ret[j].effects # DefaultEffects

\* C8: the sequence settle returns holds exactly the transactions schedule
\* admitted since the settle before, each once and in call order (so no
\* rejected transaction and no transaction of an earlier round is in it).
C8_OutputIsAdmitted ==
    outcome = "settled" =>
        /\ Len(ret) = Len(admitted)
        /\ \A i \in DOMAIN ret : ret[i].tx = admitted[i]

\* a settle that returned two different transactions, after a round that
\* started from a settled non-default state
C8_Witness ==
    /\ outcome = "settled"
    /\ Len(ret) = 2 /\ ret[1].tx # ret[2].tx
    /\ prev_state # DefaultState

\* C9: a schedule call that returns Err(()) leaves the committed State and
\* the pending queue as they were before the call.
C9_RejectChangesNothing ==
    outcome = "err" => (state = prev_state /\ scheduled_transactions = prev_queue)

\* a rejection while a transaction is pending
C9_Witness == outcome = "err" /\ prev_queue # <<>>

\* C10: within one settle, an object withdraw is checked against the object
\* balance committed when the call started, not against next_state: it
\* takes effect iff a <= max(0, balance - cursed) of that balance, and is
\* cleared otherwise, whatever the batch did to next_state before it.
C10_SnapshotDiscipline ==
    IsSettle =>
        LET limit == Max0(prev_state.object_state[1] - prev_state.object_state[2])
        IN  /\ \A i \in DOMAIN trail :
                  IsObjectWithdraw(prev_queue[i]) =>
                     LET a == prev_queue[i].amount
                     IN  /\ trail[i].object_state =
                                IF a <= limit
                                THEN <<Before(i).object_state[1] - a,
                                       Before(i).object_state[2]>>
                                ELSE Before(i).object_state
                         /\ i \in DOMAIN ret =>
                                ret[i].effects.object_delta =
                                    IF a <= limit THEN <<0 - a, 0>> ELSE <<0, 0>>
            /\ IsObjectWithdraw(failed_tx) => failed_tx.amount <= limit

\* an object withdraw cleared although the deposit before it in the batch
\* had raised next_state enough to cover it
C10_Witness ==
    /\ outcome = "settled"
    /\ \E i \in DOMAIN ret :
          /\ i > 1
          /\ IsObjectWithdraw(ret[i].tx) /\ ret[i].tx.amount > 0
          /\ ret[i - 1].tx.target = "Object" /\ ret[i - 1].tx.kind = "UserDeposit"
          /\ ret[i].tx.amount <=
                Before(i).object_state[1] - Before(i).object_state[2]
          /\ ret[i].effects = DefaultEffects

\* the delta a returned pair records for the account its transaction targets,
\* and the one it records for the other account
TargetDelta(e) ==
    IF e.tx.target = "Address"
    THEN e.effects.address_delta ELSE e.effects.object_delta
OtherDelta(e) ==
    IF e.tx.target = "Address"
    THEN e.effects.object_delta ELSE e.effects.address_delta

\* C11 as stated: in every pair settle returns, exactly one of the two
\* deltas is non-zero, the one of the account the transaction targets.
C11_ExactlyOneDelta ==
    outcome = "settled" =>
        \A i \in DOMAIN ret :
            TargetDelta(ret[i]) # <<0, 0>> /\ OtherDelta(ret[i]) = <<0, 0>>

\* C11 amended: in every pair settle returns, the delta of the account the
\* transaction does not target is zero, and the delta of the targeted account
\* is zero exactly when the amount is 0 or the transaction is an object
\* withdraw that was cleared.
C11_AtMostOneDelta ==
    outcome = "settled" =>
        \A i \in DOMAIN ret :
            /\ OtherDelta(ret[i]) = <<0, 0>>
            /\ TargetDelta(ret[i]) = <<0, 0>> <=>
                  \/ ret[i].tx.amount = 0
                  \/ /\ IsObjectWithdraw(ret[i].tx)
                     /\ ret[i].tx.amount >
                          Max0(prev_state.object_state[1]
                                  - prev_state.object_state[2])

\* a settle that returned an applied address transaction followed by a
\* cleared object withdraw
C11_Witness ==
    /\ outcome = "settled"
    /\ Len(ret) = 2
    /\ ret[1].tx.target = "Address" /\ TargetDelta(ret[1]) # <<0, 0>>
    /\ IsObjectWithdraw(ret[2].tx) /\ ret[2].tx.amount > 0
    /\ ret[2].effects = DefaultEffects

\* C12: whenever settle applies a Clawback(a), balance and cursed of its
\* target both go down by exactly a, neither below 0, and the recorded
\* effect is (-a, -a).
C12_ClawbackTakesBoth ==
    IsSettle =>
        \A i \in DOMAIN trail :
            prev_queue[i].kind = "Clawback" =>
                LET a == prev_queue[i].amount
                    was == TargetBalance(Before(i), prev_queue[i])
                    now == TargetBalance(trail[i], prev_queue[i])
                IN  /\ now = <<was[1] - a, was[2] - a>>
                    /\ now[1] >= 0 /\ now[2] >= 0
                    /\ i \in DOMAIN ret =>
                          /\ TargetDelta(ret[i]) = <<0 - a, 0 - a>>
                          /\ OtherDelta(ret[i]) = <<0, 0>>

\* a settle that applied a clawback of a positive amount after another
\* transaction of the batch
C12_Witness ==
    /\ outcome = "settled"
    /\ Len(ret) = 2
    /\ ret[2].tx.kind = "Clawback" /\ ret[2].tx.amount > 0

\* the admission a transaction gets from a committed state alone
AdmittedBy(st, tx) ==
    CASE tx.kind \in {"UserDeposit", "Curse"} -> TRUE
      [] tx.kind = "Clawback" ->
            tx.amount <= Least(TargetBalance(st, tx)[1], TargetBalance(st, tx)[2])
      [] tx.kind = "UserWithdraw" /\ tx.target = "Object" -> TRUE
      [] tx.kind = "UserWithdraw" /\ tx.target = "Address" ->
            tx.amount <= Max0(st.address_state[1] - st.address_state[2])

\* C13: schedule never changes the committed State, and whether it admits
\* is decided by the transaction and the committed State alone, whatever is
\* pending.
C13_AdmissionReadsCommittedState ==
    IsSchedule =>
        /\ state = prev_state
        /\ outcome = "ok" <=> AdmittedBy(prev_state, last_tx)

\* an address withdraw rejected while the address deposit that would fund
\* it is pending
C13_Witness ==
    /\ outcome = "err"
    /\ last_tx.target = "Address" /\ last_tx.kind = "UserWithdraw"
    /\ \E i \in DOMAIN prev_queue :
          /\ prev_queue[i].target = "Address"
          /\ prev_queue[i].kind = "UserDeposit"
          /\ prev_queue[i].amount <= IMax
          /\ last_tx.amount <=
                prev_state.address_state[1] + prev_queue[i].amount
                    - prev_state.address_state[2]

\* the delta the kind and amount of a transaction stand for
KindDelta(tx) ==
    CASE tx.kind = "UserDeposit" -> <<tx.amount, 0>>
      [] tx.kind = "UserWithdraw" -> <<0 - tx.amount, 0>>
      [] tx.kind = "Curse" -> <<0, tx.amount>>
      [] tx.kind = "Clawback" -> <<0 - tx.amount, 0 - tx.amount>>

IsEager(tx) == tx.target = "Address" \/ tx.kind = "Clawback"

\* C14: every address-target transaction and every clawback in the output
\* of settle carries its full delta (Deposit (+a,0), Withdraw (-a,0),
\* Curse (0,+a), Clawback (-a,-a)) as the effect on its target, and
\* next_state has moved by that delta.
C14_EagerNeverCleared ==
    outcome = "settled" =>
        \A i \in DOMAIN ret :
            IsEager(ret[i].tx) =>
                /\ TargetDelta(ret[i]) = KindDelta(ret[i].tx)
                /\ TargetBalance(trail[i], ret[i].tx) =
                      <<TargetBalance(Before(i), ret[i].tx)[1]
                            + KindDelta(ret[i].tx)[1],
                        TargetBalance(Before(i), ret[i].tx)[2]
                            + KindDelta(ret[i].tx)[2]>>

\* the limit of a withdraw on the balance bal
WithdrawLimit(bal) == Max0(bal[1] - bal[2])

\* the sum of the amounts of the first n transactions of the drained queue
\* that are withdraws within the limit of the object balance committed
\* before the call
RECURSIVE PassingSum(_)
PassingSum(n) ==
    IF n = 0 THEN 0
    ELSE PassingSum(n - 1)
            + (IF /\ prev_queue[n].kind = "UserWithdraw"
                  /\ prev_queue[n].amount <= WithdrawLimit(prev_state.object_state)
               THEN prev_queue[n].amount ELSE 0)

\* C15: a settle of a batch of object withdraws only, each checked against
\* the object balance committed before the call, panics in apply_delta when
\* the withdraws that pass the check add up to more than that balance: the
\* assertion fails on an object withdraw that passed its check.
C15_ObjectWithdrawsPanic ==
    (/\ IsSettle
     /\ \A i \in DOMAIN prev_queue : IsObjectWithdraw(prev_queue[i])
     /\ PassingSum(Len(prev_queue)) > prev_state.object_state[1])
        => /\ outcome = "panic"
           /\ IsObjectWithdraw(failed_tx)
           /\ failed_tx.amount <= WithdrawLimit(prev_state.object_state)

\* a settle that panicked on the second of two object withdraws, each within
\* the limit of the committed object balance
C15_Witness ==
    /\ outcome = "panic"
    /\ Len(prev_queue) = 2
    /\ \A i \in {1, 2} :
          /\ IsObjectWithdraw(prev_queue[i])
          /\ prev_queue[i].amount <= WithdrawLimit(prev_state.object_state)
    /\ prev_queue[1].amount + prev_queue[2].amount > prev_state.object_state[1]
    /\ failed_tx = prev_queue[2]
    /\ Len(trail) = 1

\* the total the withdraws on target t took in the first n pairs settle
\* returned
RECURSIVE Withdrawn(_, _)
Withdrawn(t, n) ==
    IF n = 0 THEN 0
    ELSE Withdrawn(t, n - 1)
            + (IF ret[n].tx.target = t /\ ret[n].tx.kind = "UserWithdraw"
               THEN 0 - TargetDelta(ret[n])[1] ELSE 0)

\* C16: in every settle, the withdraws applied to a target take in total at
\* most max(0, balance - cursed) of the balance of that target committed
\* before the call.
C16_WithdrawsWithinUnfrozen ==
    outcome = "settled" =>
        /\ Withdrawn("Address", Len(ret)) <= WithdrawLimit(prev_state.address_state)
        /\ Withdrawn("Object", Len(ret)) <= WithdrawLimit(prev_state.object_state)

\* whether tx is within the limit of the balance bal of its own target
WithinLimit(bal, tx) ==
    CASE tx.kind \in {"UserDeposit", "Curse"} -> TRUE
      [] tx.kind = "UserWithdraw" -> tx.amount <= WithdrawLimit(bal)
      [] tx.kind = "Clawback" -> tx.amount <= Least(bal[1], bal[2])

\* C17: settling an address transaction leaves the object balance as it
\* was and settling an object transaction leaves the address balance as it
\* was; admission of an eagerly checked transaction and the settle-time
\* check of an object transaction are decided by the committed balance of
\* the transaction's own target.
C17_BalancesIndependent ==
    /\ IsSettle =>
          \A i \in DOMAIN trail :
              /\ prev_queue[i].target = "Address" =>
                    trail[i].object_state = Before(i).object_state
              /\ prev_queue[i].target = "Object" =>
                    trail[i].address_state = Before(i).address_state
    /\ (IsSchedule /\ IsEager(last_tx)) =>
          (outcome = "ok" <=>
              WithinLimit(TargetBalance(prev_state, last_tx), last_tx))
    /\ outcome = "settled" =>
          \A i \in DOMAIN ret :
              (ret[i].tx.target = "Object" /\ ret[i].tx.kind # "Clawback") =>
                  (trail[i] # Before(i) =>
                      WithinLimit(prev_state.object_state, ret[i].tx))
                  /\ (~WithinLimit(prev_state.object_state, ret[i].tx) =>
                          ret[i].effects = DefaultEffects)

\* a settle that applied an address transaction and then an object
\* transaction, from a state where both balances were non-zero
C17_Witness ==
    /\ outcome = "settled"
    /\ Len(ret) = 2
    /\ ret[1].tx.target = "Address" /\ ret[2].tx.target = "Object"
    /\ TargetDelta(ret[1]) # <<0, 0>> /\ TargetDelta(ret[2]) # <<0, 0>>
    /\ prev_state.address_state # <<0, 0>>
    /\ prev_state.object_state # <<0, 0>>
    /\ prev_state.address_state # prev_state.object_state

\* C18: a Curse is always admitted, also when it takes cursed above balance;
\* while cursed >= balance an address withdraw is admitted iff its amount is
\* 0, and while balance > cursed iff its amount is at most balance - cursed;
\* the settle-time check of an object withdraw has the same limit.
C18_PreemptiveCurse ==
    /\ (IsSchedule /\ last_tx.kind = "Curse") => outcome = "ok"
    /\ (IsSchedule /\ last_tx.kind = "UserWithdraw" /\ last_tx.target = "Address")
          => LET b == prev_state.address_state[1]
                 c == prev_state.address_state[2]
             IN  IF c >= b
                 THEN outcome = "ok" <=> last_tx.amount = 0
                 ELSE outcome = "ok" <=> last_tx.amount <= b - c
    /\ outcome = "settled" =>
          \A i \in DOMAIN ret :
              (IsObjectWithdraw(ret[i].tx) /\ ret[i].tx.amount > 0) =>
                  LET b == prev_state.object_state[1]
                      c == prev_state.object_state[2]
                  IN  IF c >= b
                      THEN ret[i].effects = DefaultEffects
                      ELSE ret[i].effects # DefaultEffects
                              <=> ret[i].tx.amount <= b - c

\* an address Curse admitted that takes cursed above the committed balance
C18_Witness ==
    /\ outcome = "ok"
    /\ last_tx.kind = "Curse" /\ last_tx.target = "Address"
    /\ last_tx.amount <= IMax
    /\ prev_state.address_state[1] > 0
    /\ prev_state.address_state[2] <= prev_state.address_state[1]
    /\ prev_state.address_state[2] + last_tx.amount > prev_state.address_state[1]

\* C19: settling a Deposit(a) or a Curse(a) never trips the assertion of
\* apply_delta and raises the field it adds to by exactly a, for every
\* unsigned amount a and every reachable balance.
C19_AddingNeverFails ==
    IsSettle =>
        /\ failed_tx.kind \notin {"UserDeposit", "Curse"}
        /\ \A i \in DOMAIN trail :
              prev_queue[i].kind \in {"UserDeposit", "Curse"} =>
                  TargetBalance(trail[i], prev_queue[i]) =
                      <<TargetBalance(Before(i), prev_queue[i])[1]
                            + KindDelta(prev_queue[i])[1],
                        TargetBalance(Before(i), prev_queue[i])[2]
                            + KindDelta(prev_queue[i])[2]>>

\* the orders of n transactions
Orders(n) ==
    {p \in [1 .. n -> 1 .. n] : \A i, j \in 1 .. n : p[i] = p[j] => i = j}

\* the queue the last settle drained, in the order p
Reordered(p) == [i \in 1 .. Len(prev_queue) |-> prev_queue[p[i]]]

\* the settle of the batch q from the state committed before the last settle
Resettled(q) == settle_loop(prev_state, prev_state, q, <<>>, <<>>)

\* C20: a batch that settled, scheduled in any other order from the same
\* committed State, either trips the assertion or commits the same State
\* and records the same effect for each transaction.
C20_OrderIndependent ==
    outcome = "settled" =>
        \A p \in Orders(Len(prev_queue)) :
            LET r == Resettled(Reordered(p))
            IN  r.ok =>
                  /\ r.state = state
                  /\ \A i \in DOMAIN r.ret :
                        /\ r.ret[i].tx = ret[p[i]].tx
                        /\ r.ret[i].effects = ret[p[i]].effects

\* a settled batch of two different transactions whose other order trips
\* the assertion
C20_Witness ==
    /\ outcome = "settled"
    /\ Len(prev_queue) = 2
    /\ prev_queue[1] # prev_queue[2]
    /\ ~Resettled(<<prev_queue[2], prev_queue[1]>>).ok
====
